---- MODULE Spec2Model ----
(***************************************************************************)
(* The plugin contract tests of tests/test_checker_contract.py.            *)
(*                                                                         *)
(* The state is the tools/ directory with the plugins it holds (fixed for  *)
(* one test session), the interpreter's module registry, and the report of *)
(* the test that ran last.  One action per test function, taken in the     *)
(* order pytest collects them.  File and member names are sequences of     *)
(* characters, so that glob patterns, startswith and stem are computed.    *)
(***************************************************************************)
EXTENDS Integers, Sequences, FiniteSets, TLC

VARIABLES
    dirExists,   \* tools_dir.exists()
    files,       \* names of the entries of tools/
    plugins,     \* what each discoverable file holds: load outcome and members
    sysModules,  \* sys.modules: the module registered under each name test code has set
    fixtures,    \* number of fixture models pytest has constructed
    pc,          \* number of tests that have run
    outcomes,    \* outcome of each test that has run, in order
    report       \* report of the test that ran last

vars == <<dirExists, files, plugins, sysModules, fixtures, pc, outcomes, report>>

(***************************************************************************)
(* Bounds of the model.                                                    *)
(***************************************************************************)
MaxEntries == 2   \* longest result list a check function returns

(***************************************************************************)
(* Names.                                                                  *)
(***************************************************************************)
CheckerPrefix == <<"c", "h", "e", "c", "k", "e", "r", "_">>
PySuffix == <<".", "p", "y">>
CheckPrefix == <<"c", "h", "e", "c", "k", "_">>
TemplateName == CheckerPrefix \o <<"t", "e", "m", "p", "l", "a", "t", "e">> \o PySuffix
InitName == <<"_", "_", "i", "n", "i", "t", "_", "_">> \o PySuffix

CheckerA == CheckerPrefix \o <<"a">> \o PySuffix
CheckerB == CheckerPrefix \o <<"b">> \o PySuffix
CheckerBare == CheckerPrefix \o PySuffix
CheckerNoUnderscore == <<"c", "h", "e", "c", "k", "e", "r">> \o PySuffix
CheckerText == CheckerPrefix \o <<"a", ".", "t", "x", "t">>
HelpersName == <<"h", "e", "l", "p", "e", "r", "s">> \o PySuffix

\* str.startswith
StartsWith(name, prefix) ==
    /\ Len(name) >= Len(prefix)
    /\ SubSeq(name, 1, Len(prefix)) = prefix

EndsWith(name, suffix) ==
    /\ Len(name) >= Len(suffix)
    /\ SubSeq(name, Len(name) - Len(suffix) + 1, Len(name)) = suffix

\* Path.glob with a pattern  <prefix>*<suffix>: the star takes any run of
\* characters, the empty one included.
GlobMatch(name, prefix, suffix) ==
    /\ Len(name) >= Len(prefix) + Len(suffix)
    /\ StartsWith(name, prefix)
    /\ EndsWith(name, suffix)

\* Path.stem: the name without its last suffix.
RECURSIVE LastDot(_, _)
LastDot(name, i) ==
    IF i = 0 THEN 0
    ELSE IF name[i] = "." THEN i
    ELSE LastDot(name, i - 1)

Stem(name) ==
    LET d == LastDot(name, Len(name))
    IN IF d > 1 /\ d < Len(name) THEN SubSeq(name, 1, d - 1) ELSE name

(***************************************************************************)
(* Configuration of the contract.                                          *)
(***************************************************************************)
REQUIRED_KEYS ==
    {"element_id", "element_type", "element_name", "element_name_long",
     "check_status", "actual_value", "required_value", "comment", "log"}

VALID_STATUS_VALUES == {"pass", "fail", "warning", "blocked", "log"}

(***************************************************************************)
(* Discovery helpers.                                                      *)
(***************************************************************************)
\* Discovery that forgets to exclude the template.
DiscoverWithTemplate ==
    IF ~dirExists THEN {}
    ELSE {g \in files : GlobMatch(g, CheckerPrefix, PySuffix)}

\* The files discover_checker_modules returns, as a set; the order of the
\* list is the order the directory scan yields them in.
discover_checker_modules ==
    IF ~dirExists THEN {}
    ELSE {f \in {g \in files : GlobMatch(g, CheckerPrefix, PySuffix)} :
            f # TemplateName}

\* A naming check that does not exempt __init__.py.
NonCheckerFilesWithInit ==
    LET all_py_files == IF dirExists
                        THEN {f \in files : GlobMatch(f, <<>>, PySuffix)}
                        ELSE {}
    IN {f \in all_py_files : ~StartsWith(f, CheckerPrefix)}

\* non_checker_files of test_checker_file_naming
NonCheckerFiles ==
    LET all_py_files == IF dirExists
                        THEN {f \in files : GlobMatch(f, <<>>, PySuffix)}
                        ELSE {}
    IN {f \in all_py_files : ~StartsWith(f, CheckerPrefix) /\ f # InitName}

(***************************************************************************)
(* Python values, as far as the tests look at them: the type, a printed    *)
(* form for scalars, the items of a list or tuple, the mapping of a dict.  *)
(***************************************************************************)
PyStr(s) == [type |-> "str", repr |-> s]
PyNone == [type |-> "NoneType", repr |-> "None"]
PyInt(s) == [type |-> "int", repr |-> s]
PyDict(m) == [type |-> "dict", map |-> m]
PyList(items) == [type |-> "list", items |-> items]
PyTuple(items) == [type |-> "tuple", items |-> items]

\* isinstance(value, cls) for the classes the tests ask about
IsInstance(value, cls) == value.type = cls

\* dict.get(key)
DictGet(d, key) == IF key \in DOMAIN d.map THEN d.map[key] ELSE PyNone

\* set(item.keys())
DictKeys(d) == DOMAIN d.map

\* Classes below Exception; SystemExit and KeyboardInterrupt derive from
\* BaseException only.
ExceptionClasses == {"ValueError", "TypeError", "AttributeError", "AssertionError"}

Returns(v) == [kind |-> "return", value |-> v, exc |-> ""]
Raises(e) == [kind |-> "raise", value |-> PyNone, exc |-> e]

\* A call  func(fixture)  with one positional argument: binding fails with
\* TypeError when there is no parameter to take it or when a further
\* parameter has no default; otherwise the body runs.
Call(m, fixture) ==
    IF \/ Len(m.params) = 0
       \/ \E k \in 2..Len(m.params) : m.params[k].required
    THEN Raises("TypeError")
    ELSE IF fixture = "empty" THEN m.onEmpty ELSE m.onPopulated

(***************************************************************************)
(* Order of names: inspect.getmembers returns the members sorted by name.  *)
(***************************************************************************)
Alphabet ==
    <<".", "_", "a", "b", "c", "d", "e", "f", "g", "h", "i", "j", "k", "l", "m",
      "n", "o", "p", "q", "r", "s", "t", "u", "v", "w", "x", "y", "z">>

Ord(c) == CHOOSE i \in 1..Len(Alphabet) : Alphabet[i] = c

RECURSIVE NameLess(_, _)
NameLess(a, b) ==
    IF Len(a) = 0 THEN Len(b) > 0
    ELSE IF Len(b) = 0 THEN FALSE
    ELSE IF Ord(Head(a)) # Ord(Head(b)) THEN Ord(Head(a)) < Ord(Head(b))
    ELSE NameLess(Tail(a), Tail(b))

RECURSIVE SortedByName(_)
SortedByName(ms) ==
    IF ms = {} THEN <<>>
    ELSE LET first == CHOOSE m \in ms : \A n \in ms \ {m} : NameLess(m.name, n.name)
         IN <<first>> \o SortedByName(ms \ {first})

\* find_check_functions(module): the (name, obj) pairs, in getmembers' order
find_check_functions(module) ==
    SelectSeq(SortedByName(module.members),
              LAMBDA m : StartsWith(m.name, CheckPrefix) /\ m.callable)

\* The orders a directory scan can yield a set of files in.
Orders(S) ==
    {o \in [1..Cardinality(S) -> S] :
        \A i, j \in 1..Cardinality(S) : i # j => o[i] # o[j]}

(***************************************************************************)
(* One run of a test.  acc is what the run has done so far:                *)
(*   status     "running" until an assertion fails ("failed"), an          *)
(*              exception leaves the test ("error") or a loop is left by   *)
(*              break ("break")                                            *)
(*   msg        the assertion message, with the values its f-string        *)
(*              interpolates, or the exception that left the test          *)
(*   loaded     files handed to load_module_from_path                      *)
(*   inspected  <<file, function>> whose signature was read                *)
(*   invoked    <<file, function>> called with the fixture                 *)
(*   checked    <<file, function, index>> of the entries an assertion was  *)
(*              evaluated on                                               *)
(*   total      total_functions of test_check_function_exists              *)
(*   model      the fixture object the test holds                          *)
(*   received   what each call was handed: the object and its walls        *)
(*   modules    sys.modules as the run has left it                         *)
(*   units      the module objects the run has made                        *)
(***************************************************************************)
NoMsg == [text |-> ""]

\* conftest.py: the fixtures are function-scoped, so pytest calls the fixture
\* function once for each test that names it, before the body of the test,
\* and hands the test the object it returned.  A model is told here by the
\* elements it holds; id numbers the objects in the order of construction.
simple_ifc_model(id) ==
    [id |-> id, storeys |-> 2, walls |-> 3, doors |-> 2, windows |-> 2, spaces |-> 1]

empty_ifc_model(id) ==
    [id |-> id, storeys |-> 0, walls |-> 0, doors |-> 0, windows |-> 0, spaces |-> 0]

\* What a test that requests no fixture has in place of a model.
NoFixture == empty_ifc_model(0)

PopulatedTests ==
    {"test_returns_list", "test_returns_dicts", "test_required_keys_present",
     "test_check_status_valid", "test_element_id_type",
     "test_string_fields_are_strings", "test_nullable_fields", "test_produces_results"}

FixtureTests == PopulatedTests \union {"test_handles_empty_model"}

\* The argument pytest binds to the fixture parameter of test t.
Fixture(t) ==
    IF t \in PopulatedTests THEN simple_ifc_model(fixtures + 1)
    ELSE IF t = "test_handles_empty_model" THEN empty_ifc_model(fixtures + 1)
    ELSE NoFixture

Start ==
    [status |-> "running", msg |-> NoMsg, loaded |-> {}, inspected |-> {},
     invoked |-> {}, checked |-> {}, total |-> 0, model |-> NoFixture, received |-> {},
     modules |-> <<>>, units |-> {}]

\* The state of test t when its body begins: its fixture, and sys.modules as
\* the tests before left it.
Setup(t) == [Start EXCEPT !.model = Fixture(t), !.modules = sysModules]

Fail(acc, msg) == [acc EXCEPT !.status = "failed", !.msg = msg]

\* An exception nothing in the test catches: pytest reports its traceback.
Propagate(acc, exc, file, func) ==
    [acc EXCEPT !.status = "error",
                !.msg = [text |-> "", exc |-> exc, file |-> file, func |-> func]]

\* len(result) and enumerate(result) need a sized, iterable value.
HasItems(value) == value.type \in {"list", "tuple"}

string_fields ==
    <<"element_type", "element_name", "check_status", "actual_value", "required_value">>

nullable_fields == <<"element_name_long", "comment", "log">>

\* The first field of fields, from position k on, whose value in item fails
\* the assertion of the test; 0 when none does.
RECURSIVE FirstBadField(_, _, _, _)
FirstBadField(t, item, fields, k) ==
    IF k > Len(fields) THEN 0
    ELSE LET value == DictGet(item, fields[k])
             ok == IF t = "test_string_fields_are_strings"
                   THEN IsInstance(value, "str")
                   ELSE value = PyNone \/ IsInstance(value, "str")
         IN IF ok THEN FirstBadField(t, item, fields, k + 1) ELSE k

\* The bodies of  for i, item in enumerate(result),  one per test, for item
\* i (counted from 0 as enumerate does) of the result of function m.
Checked(acc, file, m, i) == [acc EXCEPT !.checked = @ \union {<<file, m.name, i>>}]

ReturnsDictsEntryLenient(file, m, i, item, acc) ==
    IF IsInstance(item, "dict") \/ IsInstance(item, "str") THEN Checked(acc, file, m, i)
    ELSE Fail(Checked(acc, file, m, i),
              [text |-> "returned list item is not a dict",
               func |-> m.name, index |-> i, got |-> item.type])

ReturnsDictsEntry(file, m, i, item, acc) ==
    IF IsInstance(item, "dict") THEN Checked(acc, file, m, i)
    ELSE Fail(Checked(acc, file, m, i),
              [text |-> "returned list item is not a dict",
               func |-> m.name, index |-> i, got |-> item.type])

\* A key check with the difference taken the wrong way round.
RequiredKeysEntrySwapped(file, m, i, item, acc) ==
    IF ~IsInstance(item, "dict") THEN acc
    ELSE LET missing_keys == DictKeys(item) \ REQUIRED_KEYS
         IN IF Cardinality(missing_keys) = 0 THEN Checked(acc, file, m, i)
            ELSE Fail(Checked(acc, file, m, i),
                      [text |-> "missing required keys",
                       func |-> m.name, index |-> i, missing |-> missing_keys])

RequiredKeysEntry(file, m, i, item, acc) ==
    IF ~IsInstance(item, "dict") THEN acc
    ELSE LET missing_keys == REQUIRED_KEYS \ DictKeys(item)
         IN IF Cardinality(missing_keys) = 0 THEN Checked(acc, file, m, i)
            ELSE Fail(Checked(acc, file, m, i),
                      [text |-> "missing required keys",
                       func |-> m.name, index |-> i, missing |-> missing_keys])

CheckStatusEntryOptional(file, m, i, item, acc) ==
    IF ~IsInstance(item, "dict") THEN acc
    ELSE LET status == DictGet(item, "check_status")
         IN IF status = PyNone \/ (status.type = "str" /\ status.repr \in VALID_STATUS_VALUES)
            THEN Checked(acc, file, m, i)
            ELSE Fail(Checked(acc, file, m, i),
                      [text |-> "has invalid check_status",
                       func |-> m.name, index |-> i, status |-> status.repr])

CheckStatusEntry(file, m, i, item, acc) ==
    IF ~IsInstance(item, "dict") THEN acc
    ELSE LET status == DictGet(item, "check_status")
         IN IF status.type = "str" /\ status.repr \in VALID_STATUS_VALUES
            THEN Checked(acc, file, m, i)
            ELSE Fail(Checked(acc, file, m, i),
                      [text |-> "has invalid check_status",
                       func |-> m.name, index |-> i, status |-> status.repr])

ElementIdEntryStrict(file, m, i, item, acc) ==
    IF ~IsInstance(item, "dict") THEN acc
    ELSE LET element_id == DictGet(item, "element_id")
         IN IF IsInstance(element_id, "str")
            THEN Checked(acc, file, m, i)
            ELSE Fail(Checked(acc, file, m, i),
                      [text |-> "element_id must be str or None",
                       func |-> m.name, index |-> i, got |-> element_id.type])

ElementIdEntry(file, m, i, item, acc) ==
    IF ~IsInstance(item, "dict") THEN acc
    ELSE LET element_id == DictGet(item, "element_id")
         IN IF element_id = PyNone \/ IsInstance(element_id, "str")
            THEN Checked(acc, file, m, i)
            ELSE Fail(Checked(acc, file, m, i),
                      [text |-> "element_id must be str or None",
                       func |-> m.name, index |-> i, got |-> element_id.type])

StringFieldsEntry(file, m, i, item, acc) ==
    IF ~IsInstance(item, "dict") THEN acc
    ELSE LET k == FirstBadField("test_string_fields_are_strings", item, string_fields, 1)
         IN IF k = 0 THEN Checked(acc, file, m, i)
            ELSE Fail(Checked(acc, file, m, i),
                      [text |-> "must be str",
                       func |-> m.name, index |-> i, field |-> string_fields[k],
                       got |-> DictGet(item, string_fields[k]).type])

NullableFieldsEntry(file, m, i, item, acc) ==
    IF ~IsInstance(item, "dict") THEN acc
    ELSE LET k == FirstBadField("test_nullable_fields", item, nullable_fields, 1)
         IN IF k = 0 THEN Checked(acc, file, m, i)
            ELSE Fail(Checked(acc, file, m, i),
                      [text |-> "must be str or None",
                       func |-> m.name, index |-> i, field |-> nullable_fields[k],
                       got |-> DictGet(item, nullable_fields[k]).type])

PerEntry(t, file, m, i, item, acc) ==
    CASE t = "test_returns_dicts" -> ReturnsDictsEntry(file, m, i, item, acc)
      [] t = "test_required_keys_present" -> RequiredKeysEntry(file, m, i, item, acc)
      [] t = "test_check_status_valid" -> CheckStatusEntry(file, m, i, item, acc)
      [] t = "test_element_id_type" -> ElementIdEntry(file, m, i, item, acc)
      [] t = "test_string_fields_are_strings" -> StringFieldsEntry(file, m, i, item, acc)
      [] t = "test_nullable_fields" -> NullableFieldsEntry(file, m, i, item, acc)

\* A loop over the entries that goes on after a failure.
RECURSIVE ForEntriesToEnd(_, _, _, _, _, _)
ForEntriesToEnd(t, file, m, items, k, acc) ==
    IF k > Len(items) THEN acc
    ELSE ForEntriesToEnd(t, file, m, items, k + 1,
                         PerEntry(t, file, m, k - 1, items[k], acc))

RECURSIVE ForEntries(_, _, _, _, _, _)
ForEntries(t, file, m, items, k, acc) ==
    IF k > Len(items) \/ acc.status # "running" THEN acc
    ELSE ForEntries(t, file, m, items, k + 1,
                    PerEntry(t, file, m, k - 1, items[k], acc))

EntryTests ==
    {"test_returns_dicts", "test_required_keys_present", "test_check_status_valid",
     "test_element_id_type", "test_string_fields_are_strings", "test_nullable_fields"}

\* The bodies of  for func_name, func in functions,  one per test.
\* A call that would hand the function a model of its own.
InvokedOnCopy(acc, file, m) ==
    [acc EXCEPT !.invoked = @ \union {<<file, m.name>>},
                !.received = @ \union {[file |-> file, func |-> m.name,
                                        id |-> acc.model.id, walls |-> acc.model.walls]}]

\* func(simple_ifc_model): the function receives the object the test holds,
\* and what its body, once the argument is bound, adds to the model stays in
\* that object.
Invoked(acc, file, m) ==
    [acc EXCEPT !.invoked = @ \union {<<file, m.name>>},
                !.received = @ \union {[file |-> file, func |-> m.name,
                                        id |-> acc.model.id, walls |-> acc.model.walls]},
                !.model.walls = IF /\ m.mutates
                                   /\ Len(m.params) >= 1
                                   /\ \A k \in 2..Len(m.params) : ~m.params[k].required
                                THEN @ + 1 ELSE @]

\* A signature check that looks at the number of parameters only.
SignatureBodyArityOnly(file, m, acc) ==
    LET a == [acc EXCEPT !.inspected = @ \union {<<file, m.name>>}]
        params == m.params
    IN IF ~(Len(params) >= 1)
       THEN Fail(a, [text |-> "must accept at least one parameter",
                     func |-> m.name, file |-> file])
       ELSE a

SignatureBody(file, m, acc) ==
    LET a == [acc EXCEPT !.inspected = @ \union {<<file, m.name>>}]
        params == m.params
    IN IF ~(Len(params) >= 1)
       THEN Fail(a, [text |-> "must accept at least one parameter",
                     func |-> m.name, file |-> file])
       ELSE IF params[1].name # "model"
       THEN Fail(a, [text |-> "first parameter must be 'model'",
                     func |-> m.name, file |-> file, got |-> params[1].name])
       ELSE a

ReturnsListBody(file, m, acc) ==
    LET r == Call(m, "populated")
    IN IF r.kind = "raise" THEN Propagate(Invoked(acc, file, m), r.exc, file, m.name)
       ELSE IF IsInstance(r.value, "list") THEN Invoked(acc, file, m)
       ELSE Fail(Invoked(acc, file, m),
                 [text |-> "must return a list", func |-> m.name, got |-> r.value.type])

\* A schema test that leaves out the functions whose first parameter is not
\* named model.
EntriesBodyForModelOnly(t, file, m, acc) ==
    LET r == Call(m, "populated")
    IN IF Len(m.params) >= 1 /\ m.params[1].name # "model" THEN acc
       ELSE IF r.kind = "raise" THEN Propagate(Invoked(acc, file, m), r.exc, file, m.name)
       ELSE IF ~HasItems(r.value)
       THEN Propagate(Invoked(acc, file, m), "TypeError", file, m.name)
       ELSE ForEntries(t, file, m, r.value.items, 1, Invoked(acc, file, m))

EntriesBody(t, file, m, acc) ==
    LET r == Call(m, "populated")
    IN IF r.kind = "raise" THEN Propagate(Invoked(acc, file, m), r.exc, file, m.name)
       ELSE IF ~HasItems(r.value)
       THEN Propagate(Invoked(acc, file, m), "TypeError", file, m.name)
       ELSE ForEntries(t, file, m, r.value.items, 1, Invoked(acc, file, m))

\* The empty-model test without its try/except.
HandlesEmptyBodyUncaught(file, m, acc) ==
    LET r == Call(m, "empty")
    IN IF r.kind = "raise" THEN Propagate(Invoked(acc, file, m), r.exc, file, m.name)
       ELSE IF IsInstance(r.value, "list") THEN Invoked(acc, file, m)
       ELSE Fail(Invoked(acc, file, m),
                 [text |-> "raised exception on empty model",
                  func |-> m.name, exc |-> "AssertionError"])

HandlesEmptyBody(file, m, acc) ==
    LET r == Call(m, "empty")
    IN IF r.kind = "raise"
       THEN IF r.exc \in ExceptionClasses
            THEN Fail(Invoked(acc, file, m),
                      [text |-> "raised exception on empty model",
                       func |-> m.name, exc |-> r.exc])
            ELSE Propagate(Invoked(acc, file, m), r.exc, file, m.name)
       ELSE IF IsInstance(r.value, "list") THEN Invoked(acc, file, m)
       ELSE Fail(Invoked(acc, file, m),
                 [text |-> "raised exception on empty model",
                  func |-> m.name, exc |-> "AssertionError"])

ProducesResultsBodyAnyResult(file, m, acc) ==
    LET r == Call(m, "populated")
    IN IF r.kind = "raise" THEN Propagate(Invoked(acc, file, m), r.exc, file, m.name)
       ELSE IF ~HasItems(r.value)
       THEN Propagate(Invoked(acc, file, m), "TypeError", file, m.name)
       ELSE IF Len(r.value.items) >= 0
       THEN [Invoked(acc, file, m) EXCEPT !.status = "break"]
       ELSE Invoked(acc, file, m)

ProducesResultsBody(file, m, acc) ==
    LET r == Call(m, "populated")
    IN IF r.kind = "raise" THEN Propagate(Invoked(acc, file, m), r.exc, file, m.name)
       ELSE IF ~HasItems(r.value)
       THEN Propagate(Invoked(acc, file, m), "TypeError", file, m.name)
       ELSE IF Len(r.value.items) > 0
       THEN [Invoked(acc, file, m) EXCEPT !.status = "break"]
       ELSE Invoked(acc, file, m)

PerFunction(t, file, m, acc) ==
    CASE t = "test_check_function_signature" -> SignatureBody(file, m, acc)
      [] t = "test_returns_list" -> ReturnsListBody(file, m, acc)
      [] t \in EntryTests -> EntriesBody(t, file, m, acc)
      [] t = "test_handles_empty_model" -> HandlesEmptyBody(file, m, acc)
      [] t = "test_produces_results" -> ProducesResultsBody(file, m, acc)

\* A loop over the functions that goes on after a failure.
RECURSIVE ForFunctionsToEnd(_, _, _, _, _)
ForFunctionsToEnd(t, file, functions, k, acc) ==
    IF k > Len(functions) THEN acc
    ELSE ForFunctionsToEnd(t, file, functions, k + 1,
                           PerFunction(t, file, functions[k], acc))

RECURSIVE ForFunctions(_, _, _, _, _)
ForFunctions(t, file, functions, k, acc) ==
    IF k > Len(functions) \/ acc.status # "running" THEN acc
    ELSE ForFunctions(t, file, functions, k + 1,
                      PerFunction(t, file, functions[k], acc))

\* A loader that registers every module under one name.
LoadUnderOneName(path) ==
    [module_name |-> CheckerPrefix,
     raised |-> plugins[path].load,
     module |-> plugins[path]]

\* load_module_from_path(path): the module is registered under the stem of
\* the file before its top-level code runs, and exec_module lets whatever
\* that code raises through.
load_module_from_path(path) ==
    [module_name |-> Stem(path),
     raised |-> plugins[path].load,
     module |-> plugins[path]]

\* module_from_spec makes a new module object at every call; it is told here
\* by the test that called and the number of the call within that test.
\* exec_module fills its namespace from the top-level code of the file, and
\* sys.modules[module_name] = module  has put it under module_name before.
Loaded(acc, file, loading) ==
    LET module == [id |-> <<pc + 1, Cardinality(acc.loaded) + 1>>,
                   file |-> file,
                   namespace |-> loading.module.members]
    IN [acc EXCEPT !.loaded = @ \union {file},
                   !.units = @ \union {module},
                   !.modules = (loading.module_name :> module) @@ @]

\* A sweep that passes over a file that fails to load.
PerFileIsolated(t, file, acc) ==
    LET loading == load_module_from_path(file)
        a == Loaded(acc, file, loading)
    IN IF loading.raised # "ok" THEN a
       ELSE LET functions == find_check_functions(loading.module)
            IN IF t = "test_check_function_exists"
               THEN [a EXCEPT !.total = @ + Len(functions)]
               ELSE ForFunctions(t, file, functions, 1, a)

\* The body of  for checker_file in checker_files  of test t.
PerFile(t, file, acc) ==
    LET loading == load_module_from_path(file)
        a == Loaded(acc, file, loading)
    IN IF loading.raised # "ok" THEN Propagate(a, loading.raised, file, <<>>)
       ELSE LET functions == find_check_functions(loading.module)
            IN IF t = "test_check_function_exists"
               THEN [a EXCEPT !.total = @ + Len(functions)]
               ELSE ForFunctions(t, file, functions, 1, a)

RECURSIVE ForFiles(_, _, _, _)
ForFiles(t, checker_files, k, acc) ==
    IF k > Len(checker_files) \/ acc.status # "running" THEN acc
    ELSE ForFiles(t, checker_files, k + 1, PerFile(t, checker_files[k], acc))

\* The assertion after the loops, where the test has one.
Conclude(t, acc) ==
    IF acc.status = "break" THEN [acc EXCEPT !.status = "passed"]
    ELSE IF acc.status # "running" THEN acc
    ELSE IF t = "test_check_function_exists" /\ ~(acc.total > 0)
    THEN Fail(acc, [text |-> "No check_* functions found in checker files"])
    ELSE IF t = "test_produces_results"
    THEN Fail(acc, [text |-> "No check function produced any results"])
    ELSE [acc EXCEPT !.status = "passed"]

\* A sweep without the guard that skips when nothing was discovered.
SweepWithoutSkip(t, checker_files) ==
    Conclude(t, ForFiles(t, checker_files, 1, Setup(t)))

\* A test that sweeps the discovered files, which discovery returned in the
\* order checker_files.
Sweep(t, checker_files) ==
    IF Len(checker_files) = 0
    THEN [Setup(t) EXCEPT !.status = "skipped",
                       !.msg = [text |-> "No checker files found"]]
    ELSE Conclude(t, ForFiles(t, checker_files, 1, Setup(t)))

Report(t, checker_files, acc) ==
    [test |-> t,
     outcome |-> acc.status,
     msg |-> acc.msg,
     checker_files |-> checker_files,
     loaded |-> acc.loaded,
     inspected |-> acc.inspected,
     invoked |-> acc.invoked,
     checked |-> acc.checked,
     received |-> acc.received,
     units |-> acc.units]

(***************************************************************************)
(* The tests, in the order of the file.                                    *)
(***************************************************************************)
Tests ==
    <<"test_checker_file_exists", "test_checker_file_naming",
      "test_check_function_exists", "test_check_function_signature",
      "test_returns_list", "test_returns_dicts", "test_required_keys_present",
      "test_check_status_valid", "test_element_id_type",
      "test_string_fields_are_strings", "test_nullable_fields",
      "test_handles_empty_model", "test_produces_results">>

Position(t) == CHOOSE k \in 1..Len(Tests) : Tests[k] = t

Ran(t) == pc = Position(t) /\ report.test = t

test_checker_file_exists ==
    /\ pc = Position("test_checker_file_exists") - 1
    /\ \E checker_files \in Orders(discover_checker_modules) :
          report' = Report("test_checker_file_exists", checker_files,
                           IF Len(checker_files) > 0
                           THEN [Start EXCEPT !.status = "passed"]
                           ELSE Fail(Start, [text |-> "No checker_*.py file found in tools/ directory"]))
    /\ pc' = pc + 1
    /\ outcomes' = Append(outcomes, report'.outcome)
    /\ UNCHANGED <<dirExists, files, plugins, sysModules, fixtures>>

test_checker_file_naming ==
    /\ pc = Position("test_checker_file_naming") - 1
    /\ report' = Report("test_checker_file_naming", <<>>,
                        IF Cardinality(NonCheckerFiles) = 0
                        THEN [Start EXCEPT !.status = "passed"]
                        ELSE Fail(Start, [text |-> "Found Python files not following naming convention",
                                          names |-> NonCheckerFiles]))
    /\ pc' = pc + 1
    /\ outcomes' = Append(outcomes, report'.outcome)
    /\ UNCHANGED <<dirExists, files, plugins, sysModules, fixtures>>

\* A test that discovers the files, then loads and examines each.
RunSweep(t) ==
    /\ pc = Position(t) - 1
    /\ \E checker_files \in Orders(discover_checker_modules) :
          LET acc == Sweep(t, checker_files)
          IN /\ report' = Report(t, checker_files, acc)
             /\ sysModules' = acc.modules
    /\ fixtures' = IF t \in FixtureTests THEN fixtures + 1 ELSE fixtures
    /\ pc' = pc + 1
    /\ outcomes' = Append(outcomes, report'.outcome)
    /\ UNCHANGED <<dirExists, files, plugins>>

test_check_function_exists == RunSweep("test_check_function_exists")
test_check_function_signature == RunSweep("test_check_function_signature")
test_returns_list == RunSweep("test_returns_list")
test_returns_dicts == RunSweep("test_returns_dicts")
test_required_keys_present == RunSweep("test_required_keys_present")
test_check_status_valid == RunSweep("test_check_status_valid")
test_element_id_type == RunSweep("test_element_id_type")
test_string_fields_are_strings == RunSweep("test_string_fields_are_strings")
test_nullable_fields == RunSweep("test_nullable_fields")
test_handles_empty_model == RunSweep("test_handles_empty_model")
test_produces_results == RunSweep("test_produces_results")

Next ==
    \/ test_checker_file_exists
    \/ test_checker_file_naming
    \/ test_check_function_exists
    \/ test_check_function_signature
    \/ test_returns_list
    \/ test_returns_dicts
    \/ test_required_keys_present
    \/ test_check_status_valid
    \/ test_element_id_type
    \/ test_string_fields_are_strings
    \/ test_nullable_fields
    \/ test_handles_empty_model
    \/ test_produces_results

(***************************************************************************)
(* The directories and plugins a session starts from.                      *)
(***************************************************************************)
Param(n, req) == [name |-> n, required |-> req]

\* mutates: the body adds a wall to the model it is given.
Member(n, c, ps, e, p) ==
    [name |-> n, callable |-> c, params |-> ps, onEmpty |-> e, onPopulated |-> p,
     mutates |-> FALSE]

Plugin(l, ms) == [load |-> l, members |-> ms]

check_a == CheckPrefix \o <<"a">>
check_b == CheckPrefix \o <<"b">>
check_example == CheckPrefix \o <<"e", "x", "a", "m", "p", "l", "e">>
check_limit == CheckPrefix \o <<"l", "i", "m", "i", "t">>
helper == <<"h", "e", "l", "p", "e", "r">>

ModelOnly == <<Param("model", TRUE)>>

\* The summary entry of the template's check_example.
GoodEntry ==
    PyDict([element_id |-> PyNone,
            element_type |-> PyStr("Summary"),
            element_name |-> PyStr("Storey Count Check"),
            element_name_long |-> PyNone,
            check_status |-> PyStr("pass"),
            actual_value |-> PyStr("2"),
            required_value |-> PyStr(">= 1 storey"),
            comment |-> PyStr("Found 2 building storey(s)"),
            log |-> PyNone])

StoreyEntry(name) ==
    PyDict([GoodEntry.map EXCEPT !.element_id = PyStr("guid"),
                                 !.element_type = PyStr("IfcBuildingStorey"),
                                 !.element_name = PyStr(name),
                                 !.actual_value = PyStr(name),
                                 !.required_value = PyStr("Named storey"),
                                 !.comment = PyNone])

Without(d, key) == PyDict([k \in DOMAIN d.map \ {key} |-> d.map[k]])
With(d, key, v) ==
    PyDict([k \in DOMAIN d.map \union {key} |-> IF k = key THEN v ELSE d.map[k]])

\* tools/checker_template.py
TemplatePlugin ==
    Plugin("ok",
           {Member(check_example, TRUE,
                   <<Param("model", TRUE), Param("kwargs", FALSE)>>,
                   Returns(PyList(<<With(With(GoodEntry, "check_status", PyStr("fail")),
                                         "actual_value", PyStr("0"))>>)),
                   Returns(PyList(<<StoreyEntry("Ground Floor"),
                                    StoreyEntry("First Floor"), GoodEntry>>)))})

\* Entries a check function may put into its result.
EntryKinds ==
    {GoodEntry,
     Without(GoodEntry, "log"),
     Without(GoodEntry, "check_status"),
     With(GoodEntry, "check_status", PyStr("ok")),
     With(GoodEntry, "element_name", PyNone),
     With(GoodEntry, "element_id", PyInt("42")),
     With(GoodEntry, "log", PyInt("42")),
     With(GoodEntry, "extra", PyStr("x")),
     PyStr("pass")}

SeqUpTo(S, n) == UNION {[1..k -> S] : k \in 0..n}

ParamLists ==
    {<<>>,
     ModelOnly,
     <<Param("data", TRUE)>>,
     <<Param("model", TRUE), Param("threshold", TRUE)>>,
     <<Param("model", TRUE), Param("kwargs", FALSE)>>}

EmptyOutcomes ==
    {Returns(PyList(<<>>)), Returns(PyNone), Raises("ValueError"), Raises("SystemExit")}

PopulatedOutcomes ==
    {Returns(PyList(s)) : s \in SeqUpTo(EntryKinds, MaxEntries)}
    \union {Returns(PyNone), Returns(PyTuple(<<GoodEntry>>)), Raises("ValueError")}

\* What a function is besides its name.
Body(ps, e, p) == [params |-> ps, onEmpty |-> e, onPopulated |-> p, mutates |-> FALSE]

MutatingBody(ps, e, p) == [Body(ps, e, p) EXCEPT !.mutates = TRUE]

Fn(n, body) ==
    [Member(n, TRUE, body.params, body.onEmpty, body.onPopulated)
        EXCEPT !.mutates = body.mutates]

\* Functions that differ in their parameters and in what they do with the
\* empty model.
SignatureBodies ==
    {Body(ps, e, Returns(PyList(<<GoodEntry>>))) : ps \in ParamLists, e \in EmptyOutcomes}

\* Functions that differ in what they return for the populated model.
SchemaBodies ==
    {Body(ModelOnly, Returns(PyList(<<>>)), p) : p \in PopulatedOutcomes}

ShortSchemaBodies ==
    {Body(ModelOnly, Returns(PyList(<<>>)), Returns(PyList(s))) :
        s \in SeqUpTo(EntryKinds, 1)}

\* Members a module has besides its check functions: a callable without the
\* prefix and a name with the prefix that is bound to a number.
OtherMembers ==
    {Member(helper, TRUE, <<Param("data", TRUE)>>, Raises("ValueError"), Raises("ValueError")),
     Member(check_limit, FALSE, <<>>, Raises("TypeError"), Raises("TypeError"))}

DefaultPlugin ==
    Plugin("ok", {Member(check_a, TRUE, ModelOnly, Returns(PyList(<<>>)),
                         Returns(PyList(<<GoodEntry>>)))})

FileNames ==
    {CheckerA, CheckerB, CheckerBare, CheckerNoUnderscore, CheckerText,
     HelpersName, TemplateName, InitName}

Holds(f) == IF f = TemplateName THEN TemplatePlugin ELSE DefaultPlugin

\* Any directory content, every file holding a conforming plugin.
DirectoryWorlds ==
    {[dirExists |-> FALSE, files |-> {}, plugins |-> <<>>]}
    \union {[dirExists |-> TRUE, files |-> fs, plugins |-> [f \in fs |-> Holds(f)]] :
              fs \in SUBSET FileNames}

\* The shapes of a plugin directory with at most two check functions beside
\* a first one: the second in the same file, in a second file, or none; the
\* second file may also fail to load or hold no check function.
Layouts(first, second) ==
    {[dirExists |-> TRUE, files |-> {CheckerA, TemplateName},
      plugins |-> (CheckerA :> Plugin("ok", {Fn(check_a, a)} \union OtherMembers)
                   @@ TemplateName :> TemplatePlugin)] : a \in first}
    \union
    {[dirExists |-> TRUE, files |-> {CheckerA},
      plugins |-> (CheckerA :> Plugin("ok", {Fn(check_a, a), Fn(check_b, b)}))] :
        a \in first, b \in second}
    \union
    {[dirExists |-> TRUE, files |-> {CheckerA, CheckerB, HelpersName},
      plugins |-> (CheckerA :> Plugin("ok", {Fn(check_a, a)}) @@ CheckerB :> pb
                   @@ HelpersName :> Plugin("ok", OtherMembers))] :
        a \in first,
        pb \in {Plugin("ok", {Fn(check_a, b)}) : b \in second}
               \union {Plugin("SyntaxError", {}), Plugin("ok", OtherMembers)}}
    \union
    {[dirExists |-> TRUE, files |-> {CheckerA, CheckerB},
      plugins |-> (CheckerA :> pa @@ CheckerB :> pb)] :
        pa \in {Plugin("ImportError", {}), Plugin("ok", OtherMembers)},
        pb \in {Plugin("SyntaxError", {}), DefaultPlugin}}

\* Functions that differ in whether they change the model they are given.
FixtureBodies ==
    {Body(ModelOnly, Returns(PyList(<<>>)), Returns(PyList(<<>>))),
     MutatingBody(ModelOnly, Returns(PyList(<<>>)), Returns(PyList(<<>>))),
     MutatingBody(ModelOnly, Returns(PyList(<<>>)), Returns(PyList(<<GoodEntry>>)))}

SignatureWorlds == Layouts(SignatureBodies, SignatureBodies)

FixtureWorlds == Layouts(FixtureBodies, FixtureBodies)

SchemaWorlds == Layouts(SchemaBodies, ShortSchemaBodies)

Worlds == DirectoryWorlds \union SignatureWorlds \union SchemaWorlds \union FixtureWorlds

Init ==
    /\ \E w \in Worlds :
          /\ dirExists = w.dirExists
          /\ files = w.files
          /\ plugins = w.plugins
    /\ sysModules = <<>>
    /\ fixtures = 0
    /\ pc = 0
    /\ outcomes = <<>>
    /\ report = Report("", <<>>, Start)

Spec == Init /\ [][Next]_vars

(***************************************************************************)
(* What the properties below are stated with.  The names are classified by *)
(* reading them, the functions of a plugin by their listed names.          *)
(***************************************************************************)
ConformingNames == {CheckerA, CheckerB, CheckerBare}
OffendingNames == {HelpersName, CheckerNoUnderscore}
PrefixedNames == {check_a, check_b, check_example, check_limit}

Conforming == IF dirExists THEN files \intersect ConformingNames ELSE {}
Offending == IF dirExists THEN files \intersect OffendingNames ELSE {}
Discovered == {report.checker_files[k] : k \in 1..Len(report.checker_files)}
CheckFunctions(f) == {m \in plugins[f].members : m.callable /\ m.name \in PrefixedNames}

SweepTests == {Tests[k] : k \in 3..Len(Tests)}

\* C1: discovery returns exactly the files of the directory named
\* checker_*.py other than checker_template.py: each of them once, never the
\* template, never a file without the checker_ prefix or the .py suffix.
C1_DiscoveryExact ==
    (pc >= 1 /\ report.test # "test_checker_file_naming") =>
        /\ Discovered = Conforming
        /\ Len(report.checker_files) = Cardinality(Discovered)
        /\ TemplateName \notin Discovered
        /\ Discovered \intersect {HelpersName, InitName, CheckerNoUnderscore, CheckerText} = {}

C1_Witness ==
    /\ Ran("test_checker_file_exists")
    /\ {TemplateName, HelpersName, CheckerText, CheckerA, CheckerBare} \subseteq files
    /\ Discovered = {CheckerA, CheckerBare}

NoConforming == ~dirExists \/ files \intersect ConformingNames = {}

\* C2: with no plugin directory or no conforming checker file in it,
\* discovery returns nothing, test_checker_file_exists fails with the "no
\* checker file" message, and every test from test_check_function_exists on
\* ends skipped, having loaded no module and invoked no function.
C2_NothingToCheck ==
    (NoConforming /\ pc >= 1) =>
        /\ report.checker_files = <<>>
        /\ outcomes[1] = "failed"
        /\ Ran("test_checker_file_exists") =>
              report.msg = [text |-> "No checker_*.py file found in tools/ directory"]
        /\ \A k \in 3..pc : outcomes[k] = "skipped"
        /\ pc >= 3 =>
              /\ report.outcome = "skipped"
              /\ report.msg = [text |-> "No checker files found"]
              /\ report.loaded = {} /\ report.inspected = {}
              /\ report.invoked = {} /\ report.checked = {}
        /\ DOMAIN sysModules = {}

C2_Witness ==
    /\ NoConforming
    /\ {TemplateName, HelpersName} \subseteq files
    /\ pc = Len(Tests)
    /\ outcomes[1] = "failed"
    /\ report.outcome = "skipped"

\* C3: the naming check fails exactly when a .py file other than __init__.py
\* lacks the checker_ prefix, its message lists all those files, and whatever
\* its outcome the later tests discover every conforming file and, when they
\* pass, have loaded every one of them.
C3_NamingCheck ==
    pc >= 2 =>
        /\ outcomes[2] = (IF Offending # {} THEN "failed" ELSE "passed")
        /\ (Ran("test_checker_file_naming") /\ report.outcome = "failed") =>
              report.msg = [text |-> "Found Python files not following naming convention",
                            names |-> Offending]
        /\ pc >= 3 => Discovered = Conforming
        /\ (pc >= 3 /\ report.outcome = "passed" /\ report.test # "test_produces_results") =>
              report.loaded = Conforming

C3_Witness ==
    /\ Ran("test_required_keys_present")
    /\ outcomes[2] = "failed"
    /\ HelpersName \in files
    /\ report.outcome = "passed"
    /\ CheckerA \in report.loaded
    /\ <<CheckerA, check_a, 0>> \in report.checked

LoadFails(f) == plugins[f].load # "ok"
LoadError == report.outcome = "error" /\ report.msg.func = <<>>
AllLoad == \A f \in Discovered : ~LoadFails(f)

\* Position of a discovered file in the order discovery returned.
Place(f) == CHOOSE k \in 1..Len(report.checker_files) : report.checker_files[k] = f
UpTo(k) == {report.checker_files[j] : j \in 1..k}

\* C4 as claimed: a load failure of one file leaves the other discovered
\* files loaded in the same sweep.
C4_LoadFailureIsolated ==
    (report.test \in SweepTests /\ LoadError) => report.loaded = Discovered

\* C4, amended: a load failure ends the sweep of that test at the failing
\* file.  The test ends with the exception the load raised; the files before
\* it in discovery order were loaded, the files after it are not loaded, and
\* no function of the failing or a later file is inspected or invoked.  A
\* test other than test_produces_results passes only if every discovered
\* file loads.
C4_LoadFailureEndsSweep ==
    report.test \in SweepTests =>
        /\ LoadError =>
              /\ report.msg.file \in Discovered
              /\ LoadFails(report.msg.file)
              /\ report.msg.exc = plugins[report.msg.file].load
              /\ report.loaded = UpTo(Place(report.msg.file))
              /\ \A g \in report.loaded \ {report.msg.file} : ~LoadFails(g)
              /\ \A x \in report.inspected \union report.invoked :
                    x[1] \in report.loaded \ {report.msg.file}
        /\ (report.outcome = "passed" /\ report.test # "test_produces_results") => AllLoad
        /\ {Stem(f) : f \in report.loaded} \subseteq DOMAIN sysModules

C4_Witness ==
    /\ Ran("test_returns_list")
    /\ LoadError
    /\ report.checker_files = <<CheckerB, CheckerA>>
    /\ report.loaded = {CheckerB}
    /\ ~LoadFails(CheckerA)

SigOk(m) == Len(m.params) >= 1 /\ m.params[1].name = "model"
Violators ==
    UNION {{<<f, m.name>> : m \in {n \in CheckFunctions(f) : ~SigOk(n)}} : f \in Discovered}
AllFunctions == UNION {{<<f, m.name>> : m \in CheckFunctions(f)} : f \in Discovered}
TheFunction(f, n) == CHOOSE m \in CheckFunctions(f) : m.name = n

\* C5: the signature check passes only if every discovered function has a
\* first parameter and it is named model; when all files load and some
\* function has not, it fails, and the message names a function that violates
\* the contract and its file.  Only callables named check_* are inspected,
\* and none is invoked.
C5_SignatureCheck ==
    Ran("test_check_function_signature") =>
        /\ report.outcome = "passed" => Violators = {}
        /\ (AllLoad /\ Violators # {}) => report.outcome = "failed"
        /\ report.outcome = "failed" =>
              /\ {"func", "file"} \subseteq DOMAIN report.msg
              /\ <<report.msg.file, report.msg.func>> \in Violators
              /\ LET m == TheFunction(report.msg.file, report.msg.func)
                 IN IF Len(m.params) = 0
                    THEN report.msg.text = "must accept at least one parameter"
                    ELSE /\ report.msg.text = "first parameter must be 'model'"
                         /\ report.msg.got = m.params[1].name
        /\ report.inspected \subseteq AllFunctions
        /\ report.invoked = {}

C5_Witness ==
    /\ Ran("test_check_function_signature")
    /\ report.outcome = "failed"
    /\ report.msg.text = "first parameter must be 'model'"
    /\ report.msg.got = "data"
    /\ report.msg.func = check_b
    /\ <<CheckerA, check_a>> \in report.inspected

\* C6 as claimed: every function that violates the signature contract is
\* inspected in the run.
C6_EveryViolatorChecked ==
    (Ran("test_check_function_signature") /\ AllLoad) =>
        Violators \subseteq report.inspected

FunctionOrder == <<check_a, check_b, check_example>>
Rank(n) == CHOOSE k \in 1..Len(FunctionOrder) : FunctionOrder[k] = n

\* The functions a sweep has reached when it stands at function n of file f.
ReachedAt(f, n) ==
    {x \in AllFunctions :
        \/ Place(x[1]) < Place(f)
        \/ x[1] = f /\ Rank(x[2]) <= Rank(n)}

\* C6, amended: the signature check stops at the first violation.  Files are
\* taken in discovery order and functions in name order; the first violator
\* is the one reported, the functions before it were inspected and conform,
\* and the functions after it are not inspected in that run.
C6_FirstViolatorOnly ==
    (Ran("test_check_function_signature") /\ report.outcome = "failed") =>
        /\ report.inspected \intersect Violators = {<<report.msg.file, report.msg.func>>}
        /\ report.inspected = ReachedAt(report.msg.file, report.msg.func)

C6_Witness ==
    /\ Ran("test_check_function_signature")
    /\ report.outcome = "failed"
    /\ Cardinality(Violators) = 2
    /\ Cardinality(report.inspected) = 1
    /\ Cardinality(Discovered) = 2

SchemaTests == {"test_returns_list"} \union EntryTests

\* C7 as claimed: the schema checks never invoke a function whose first
\* parameter is not named model.
C7_ViolatorNotInvoked ==
    report.test \in SchemaTests => report.invoked \intersect Violators = {}

\* C7, amended: the schema checks do not consult the signature check.  A
\* schema test that passes has invoked every discovered function, those
\* whose first parameter is not named model included, while the signature
\* test of the same session has failed.
C7_ViolatorStillInvoked ==
    (report.test \in SchemaTests /\ report.outcome = "passed") =>
        /\ report.invoked = AllFunctions
        /\ Violators # {} => outcomes[Position("test_check_function_signature")] = "failed"

C7_Witness ==
    /\ Ran("test_required_keys_present")
    /\ report.outcome = "passed"
    /\ outcomes[Position("test_check_function_signature")] = "failed"
    /\ <<CheckerA, check_a>> \in report.invoked \intersect Violators
    /\ TheFunction(CheckerA, check_a).params[1].name = "data"
    /\ <<CheckerA, check_a, 0>> \in report.checked

Binds(m) == Len(m.params) >= 1 /\ \A k \in 2..Len(m.params) : ~m.params[k].required

\* C8 as claimed: no exception a function raises on the empty model leaves
\* the test; only a load can.
C8_EveryExceptionCaught ==
    Ran("test_handles_empty_model") =>
        ~(report.outcome = "error" /\ report.msg.func # <<>>)

\* C8, amended: the empty-model check passes only if every discovered
\* function returns a list without raising.  A non-list result and an
\* exception that derives from Exception (the TypeError of a call that cannot
\* bind its argument included) become a failure whose message names the
\* function; an exception that derives from BaseException only (SystemExit)
\* is not caught and leaves the test.
C8_ExceptionSubclassesCaught ==
    Ran("test_handles_empty_model") =>
        /\ report.outcome = "passed" =>
              \A x \in AllFunctions :
                 LET m == TheFunction(x[1], x[2])
                 IN Binds(m) /\ m.onEmpty.kind = "return" /\ m.onEmpty.value.type = "list"
        /\ report.outcome = "failed" =>
              /\ report.msg.text = "raised exception on empty model"
              /\ "func" \in DOMAIN report.msg
              /\ \E x \in report.invoked :
                    LET m == TheFunction(x[1], x[2])
                    IN /\ m.name = report.msg.func
                       /\ \/ ~Binds(m) /\ report.msg.exc = "TypeError"
                          \/ /\ Binds(m) /\ m.onEmpty.kind = "raise"
                             /\ m.onEmpty.exc = report.msg.exc
                             /\ report.msg.exc \in {"ValueError", "TypeError", "AttributeError"}
                          \/ /\ Binds(m) /\ m.onEmpty.kind = "return"
                             /\ m.onEmpty.value.type # "list"
                             /\ report.msg.exc = "AssertionError"
        /\ (report.outcome = "error" /\ report.msg.func # <<>>) =>
              LET m == TheFunction(report.msg.file, report.msg.func)
              IN Binds(m) /\ m.onEmpty = Raises("SystemExit") /\ report.msg.exc = "SystemExit"

C8_Witness ==
    /\ Ran("test_handles_empty_model")
    /\ report.outcome = "failed"
    /\ report.msg = [text |-> "raised exception on empty model",
                     func |-> check_b, exc |-> "ValueError"]
    /\ <<CheckerA, check_a>> \in report.invoked

(***************************************************************************)
(* The entries the populated model yields, and what each schema check      *)
(* forbids in an entry.                                                    *)
(***************************************************************************)
Sized(m) ==
    Binds(m) /\ m.onPopulated.kind = "return" /\ m.onPopulated.value.type \in {"list", "tuple"}

AllSized == \A x \in AllFunctions : Sized(TheFunction(x[1], x[2]))

Items(f, n) ==
    LET m == TheFunction(f, n)
    IN IF Sized(m) THEN m.onPopulated.value.items ELSE <<>>

Entry(x) == Items(x[1], x[2])[x[3] + 1]

AllEntries ==
    UNION {{<<x[1], x[2], i - 1>> : i \in 1..Len(Items(x[1], x[2]))} : x \in AllFunctions}

Has(e, key) == key \in DOMAIN e.map

Mapping(e) == e.type = "dict"

Forbidden(t, e) ==
    CASE t = "test_returns_dicts" -> ~Mapping(e)
      [] t = "test_required_keys_present" ->
            Mapping(e) /\ \E key \in REQUIRED_KEYS : ~Has(e, key)
      [] t = "test_check_status_valid" ->
            Mapping(e) /\ ~(/\ Has(e, "check_status")
                            /\ e.map["check_status"] \in
                                  {PyStr(v) : v \in {"pass", "fail", "warning", "blocked", "log"}})
      [] t = "test_element_id_type" ->
            Mapping(e) /\ Has(e, "element_id")
                       /\ e.map["element_id"].type \notin {"str", "NoneType"}
      [] t = "test_string_fields_are_strings" ->
            Mapping(e) /\ \E key \in {"element_type", "element_name", "check_status",
                                      "actual_value", "required_value"} :
                             ~(Has(e, key) /\ e.map[key].type = "str")
      [] t = "test_nullable_fields" ->
            Mapping(e) /\ \E key \in {"element_name_long", "comment", "log"} :
                             Has(e, key) /\ e.map[key].type \notin {"str", "NoneType"}

\* The entries a check evaluates: all of them for the element-type check,
\* the mappings for the others.
Applies(t, e) == t = "test_returns_dicts" \/ Mapping(e)

ViolatingEntries(t) == {x \in AllEntries : Forbidden(t, Entry(x))}

\* The file a sweep stood at when it ended.
LastFile == report.checker_files[Cardinality(report.loaded)]

\* The entries a sweep has evaluated when it stands at entry i of function n
\* of file f.
EntriesReachedAt(t, f, n, i) ==
    {x \in AllEntries :
        /\ Applies(t, Entry(x))
        /\ \/ <<x[1], x[2]>> \in ReachedAt(f, n) \ {<<f, n>>}
           \/ x[1] = f /\ x[2] = n /\ x[3] <= i}

\* C9 as claimed: a schema check that fails has evaluated every violating
\* entry of every discovered function.
C9_AllViolationsCollected ==
    (report.test \in EntryTests /\ report.outcome = "failed") =>
        ViolatingEntries(report.test) \subseteq report.checked

\* C9, amended: each schema check is a test of its own and stops at its
\* first violation in iteration order (files in discovery order, functions by
\* name, entries by index).  A failed check reports that one function or
\* entry; what it evaluated before conforms, and the entries, functions and
\* files after it are not evaluated in that check.  Whether one check fails
\* does not depend on the others: when every file loads and every function
\* returns a list or tuple, a check fails exactly when some entry violates
\* it.
C9_FirstViolationOnly ==
    /\ (report.test \in EntryTests /\ report.outcome = "failed") =>
          /\ <<LastFile, report.msg.func, report.msg.index>> \in ViolatingEntries(report.test)
          /\ report.checked \intersect ViolatingEntries(report.test) =
                {<<LastFile, report.msg.func, report.msg.index>>}
          /\ report.invoked = ReachedAt(LastFile, report.msg.func)
          /\ report.checked =
                EntriesReachedAt(report.test, LastFile, report.msg.func, report.msg.index)
    /\ (Ran("test_returns_list") /\ report.outcome = "failed") =>
          /\ report.invoked = ReachedAt(LastFile, report.msg.func)
          /\ {x \in report.invoked :
                 TheFunction(x[1], x[2]).onPopulated.value.type # "list"} =
                {<<LastFile, report.msg.func>>}
    /\ (report.test \in SweepTests /\ Discovered # {} /\ AllLoad /\ AllSized) =>
          \A k \in 1..pc :
             Tests[k] \in EntryTests =>
                outcomes[k] = (IF ViolatingEntries(Tests[k]) # {} THEN "failed" ELSE "passed")

C9_Witness ==
    /\ Ran("test_check_status_valid")
    /\ report.outcome = "failed"
    /\ report.msg.index = 0
    /\ report.checked = {<<CheckerA, check_a, 0>>}
    /\ ViolatingEntries("test_check_status_valid") =
          {<<CheckerA, check_a, 0>>, <<CheckerA, check_a, 1>>, <<CheckerB, check_a, 0>>}
    /\ outcomes[Position("test_required_keys_present")] = "failed"

\* C10 as claimed: every mapping entry whose keys lack a required key gets a
\* reported violation of the key-completeness check.
C10_EveryMissingKeyReported ==
    (Ran("test_required_keys_present") /\ AllLoad /\ AllSized) =>
        \A x \in ViolatingEntries("test_required_keys_present") :
           /\ report.outcome = "failed"
           /\ report.msg.func = x[2]
           /\ report.msg.index = x[3]

\* C10, amended: for every mapping entry the key-completeness check reaches
\* it takes the nine required keys minus the keys present and fails exactly
\* when that difference is not empty, the message naming the function, the
\* index of the entry and the missing keys; it stops there, so later entries
\* are not evaluated.  It passes only if no mapping entry lacks a key.
C10_MissingKeysOfReachedEntry ==
    Ran("test_required_keys_present") =>
        /\ report.outcome = "failed" =>
              LET x == <<LastFile, report.msg.func, report.msg.index>>
              IN /\ DOMAIN report.msg = {"text", "func", "index", "missing"}
                 /\ report.msg.text = "missing required keys"
                 /\ x \in report.checked
                 /\ report.msg.missing = REQUIRED_KEYS \ DOMAIN Entry(x).map
                 /\ report.msg.missing # {}
                 /\ \A y \in report.checked \ {x} : REQUIRED_KEYS \subseteq DOMAIN Entry(y).map
        /\ report.outcome = "passed" =>
              /\ report.checked = {x \in AllEntries : Mapping(Entry(x))}
              /\ \A x \in report.checked : REQUIRED_KEYS \subseteq DOMAIN Entry(x).map
        /\ \A x \in report.checked : Mapping(Entry(x))

C10_Witness ==
    /\ Ran("test_required_keys_present")
    /\ report.outcome = "failed"
    /\ report.msg = [text |-> "missing required keys", func |-> check_a,
                     index |-> 1, missing |-> {"log"}]
    /\ report.checked = {<<CheckerA, check_a, 0>>, <<CheckerA, check_a, 1>>}

(***************************************************************************)
(* The value the enum check reads from a mapping entry, as the message     *)
(* prints it.                                                              *)
(***************************************************************************)
StatusRead(e) == IF Has(e, "check_status") THEN e.map["check_status"].repr ELSE "None"

StatusAllowed(e) ==
    /\ Has(e, "check_status")
    /\ e.map["check_status"].type = "str"
    /\ e.map["check_status"].repr \in {"pass", "fail", "warning", "blocked", "log"}

\* C11 as claimed: every mapping entry whose check_status is absent or is not
\* one of the five values gets a reported violation of the enum check.
C11_EveryInvalidStatusReported ==
    (Ran("test_check_status_valid") /\ AllLoad /\ AllSized) =>
        \A x \in AllEntries :
           (Mapping(Entry(x)) /\ ~StatusAllowed(Entry(x))) =>
              /\ report.outcome = "failed"
              /\ report.msg.func = x[2]
              /\ report.msg.index = x[3]

\* C11, amended: for every mapping entry the enum check reaches it fails
\* exactly when the entry's check_status, read as None when the key is
\* absent, is not one of pass, fail, warning, blocked, log; the message names
\* the function, the index of the entry and the value read.  It stops there,
\* so later entries are not evaluated.  It passes only if every mapping
\* entry has an allowed check_status.
C11_InvalidStatusOfReachedEntry ==
    Ran("test_check_status_valid") =>
        /\ report.outcome = "failed" =>
              LET x == <<LastFile, report.msg.func, report.msg.index>>
              IN /\ DOMAIN report.msg = {"text", "func", "index", "status"}
                 /\ report.msg.text = "has invalid check_status"
                 /\ x \in report.checked
                 /\ ~StatusAllowed(Entry(x))
                 /\ report.msg.status = StatusRead(Entry(x))
                 /\ report.checked = EntriesReachedAt("test_check_status_valid", x[1], x[2], x[3])
                 /\ \A y \in report.checked \ {x} : StatusAllowed(Entry(y))
        /\ report.outcome = "passed" =>
              /\ report.checked = {x \in AllEntries : Mapping(Entry(x))}
              /\ \A x \in report.checked : StatusAllowed(Entry(x))
        /\ (AllLoad /\ AllSized) =>
              (report.outcome = "failed" <=>
                 \E x \in AllEntries : Mapping(Entry(x)) /\ ~StatusAllowed(Entry(x)))
        /\ \A x \in report.checked : Mapping(Entry(x))

C11_Witness ==
    /\ Ran("test_check_status_valid")
    /\ report.outcome = "failed"
    /\ report.msg = [text |-> "has invalid check_status", func |-> check_a,
                     index |-> 1, status |-> "None"]
    /\ report.checked = {<<CheckerA, check_a, 0>>, <<CheckerA, check_a, 1>>}

(***************************************************************************)
(* The three field-type checks together.                                   *)
(***************************************************************************)
TypeTests == {"test_element_id_type", "test_string_fields_are_strings", "test_nullable_fields"}

TypeChecksRan == pc >= Position("test_nullable_fields")

TypeChecksPass == TypeChecksRan /\ \A t \in TypeTests : outcomes[Position(t)] = "passed"

IsString(e, key) == Has(e, key) /\ e.map[key].type = "str"

NullOrString(e, key) == Has(e, key) => e.map[key].type \in {"str", "NoneType"}

\* C12 as claimed: six of the nine fields, element_id among them, are
\* non-nullable strings in every entry that passes the type checks, and
\* element_name_long, comment and log are null or a string.
C12_SixStringsThreeNullable ==
    TypeChecksPass =>
        \A x \in AllEntries :
           Mapping(Entry(x)) =>
              /\ \A key \in {"element_id", "element_type", "element_name", "check_status",
                              "actual_value", "required_value"} : IsString(Entry(x), key)
              /\ \A key \in {"element_name_long", "comment", "log"} :
                    NullOrString(Entry(x), key)

\* C12, amended: the type checks split the nine fields into five
\* non-nullable string fields (element_type, element_name, check_status,
\* actual_value, required_value), for which a null, an absent or a non-string
\* value is rejected, and four nullable fields (element_id,
\* element_name_long, comment, log), for which exactly a null, an absent key
\* or a string is accepted.  Every mapping entry of a run in which the three
\* type checks pass satisfies this five/four rule, and when every file loads
\* and every function returns a list or tuple the three checks pass exactly
\* when every mapping entry satisfies it.
C12_FiveStringsFourNullable ==
    LET conforms(e) ==
            /\ \A key \in {"element_type", "element_name", "check_status",
                            "actual_value", "required_value"} : IsString(e, key)
            /\ \A key \in {"element_id", "element_name_long", "comment", "log"} :
                  NullOrString(e, key)
    IN /\ TypeChecksPass =>
             /\ Discovered # {} /\ AllLoad /\ AllSized
             /\ \A x \in AllEntries : Mapping(Entry(x)) => conforms(Entry(x))
       /\ (TypeChecksRan /\ Discovered # {} /\ AllLoad /\ AllSized) =>
             /\ outcomes[Position("test_element_id_type")] = "passed" <=>
                   \A x \in AllEntries :
                      Mapping(Entry(x)) => NullOrString(Entry(x), "element_id")
             /\ outcomes[Position("test_string_fields_are_strings")] = "passed" <=>
                   \A x \in AllEntries :
                      Mapping(Entry(x)) =>
                         \A key \in {"element_type", "element_name", "check_status",
                                      "actual_value", "required_value"} :
                            IsString(Entry(x), key)
             /\ outcomes[Position("test_nullable_fields")] = "passed" <=>
                   \A x \in AllEntries :
                      Mapping(Entry(x)) =>
                         \A key \in {"element_name_long", "comment", "log"} :
                            NullOrString(Entry(x), key)
       /\ (Ran("test_string_fields_are_strings") /\ report.outcome = "failed") =>
             report.msg.field \in {"element_type", "element_name", "check_status",
                                   "actual_value", "required_value"}
       /\ (Ran("test_nullable_fields") /\ report.outcome = "failed") =>
             report.msg.field \in {"element_name_long", "comment", "log"}

\* The three type checks pass on an entry whose element_id is null.
C12_Witness ==
    /\ TypeChecksPass
    /\ \E x \in AllEntries :
          /\ Mapping(Entry(x))
          /\ Has(Entry(x), "element_id") /\ Entry(x).map["element_id"] = PyNone
          /\ Has(Entry(x), "log") /\ Entry(x).map["log"] = PyNone
          /\ IsString(Entry(x), "element_type")

(***************************************************************************)
(* The schema checks together.                                             *)
(***************************************************************************)
SchemaChecksRan == pc >= Position("test_nullable_fields")

SchemaChecksPass == SchemaChecksRan /\ \A t \in SchemaTests : outcomes[Position(t)] = "passed"

NineKeys ==
    {"element_id", "element_type", "element_name", "element_name_long", "check_status",
     "actual_value", "required_value", "comment", "log"}

\* C13 as claimed: the schema checks all pass only if every entry is a
\* mapping whose key set is exactly the nine required keys.
C13_ExactlyNineKeys ==
    SchemaChecksPass =>
        \A x \in AllEntries : Mapping(Entry(x)) /\ DOMAIN Entry(x).map = NineKeys

\* C13, amended: the schema checks all pass only if every entry is a mapping
\* whose key set contains the nine required keys.  An entry with a missing
\* key fails the key-completeness check and an entry that is not a mapping
\* fails the element-type check; an additional key fails no check.
C13_AtLeastNineKeys ==
    /\ SchemaChecksPass =>
          /\ Discovered # {} /\ AllLoad /\ AllSized
          /\ \A x \in AllEntries : Mapping(Entry(x)) /\ NineKeys \subseteq DOMAIN Entry(x).map
    /\ (SchemaChecksRan /\ Discovered # {} /\ AllLoad /\ AllSized) =>
          /\ outcomes[Position("test_returns_dicts")] = "failed" <=>
                \E x \in AllEntries : ~Mapping(Entry(x))
          /\ outcomes[Position("test_required_keys_present")] = "failed" <=>
                \E x \in AllEntries :
                   Mapping(Entry(x)) /\ ~(NineKeys \subseteq DOMAIN Entry(x).map)
          /\ ((\A x \in AllFunctions :
                  TheFunction(x[1], x[2]).onPopulated.value.type = "list")
              /\ \A x \in AllEntries :
                 /\ Mapping(Entry(x))
                 /\ NineKeys \subseteq DOMAIN Entry(x).map
                 /\ \A key \in NineKeys : Entry(x).map[key] = GoodEntry.map[key])
             => SchemaChecksPass

\* The schema checks all pass although an entry carries a tenth key.
C13_Witness ==
    /\ SchemaChecksPass
    /\ \E x \in AllEntries :
          /\ Mapping(Entry(x))
          /\ "extra" \in DOMAIN Entry(x).map
          /\ Cardinality(DOMAIN Entry(x).map) = 10

(***************************************************************************)
(* What a function yields on the populated model.                          *)
(***************************************************************************)
NonEmpty(x) == Sized(TheFunction(x[1], x[2])) /\ Len(Items(x[1], x[2])) > 0

EmptyResult(x) == Sized(TheFunction(x[1], x[2])) /\ Len(Items(x[1], x[2])) = 0

\* C14 as claimed: with every discovered file loading, the population-level
\* check passes exactly when some discovered function returns a non-empty
\* result on the populated model.
C14_PassesIffSomeNonEmpty ==
    (Ran("test_produces_results") /\ Discovered # {} /\ AllLoad) =>
        (report.outcome = "passed" <=> \E x \in AllFunctions : NonEmpty(x))

\* C14, amended: the population-level check is one test over all files and
\* functions.  It passes exactly when the sweep, taking files in discovery
\* order and functions in name order, reaches a function that returns a
\* non-empty result before any load or call raises, and it stops there.  It
\* fails, with one message that names no function, exactly when every file
\* loads and every discovered function returns an empty result, which
\* includes no function being discovered.  A load failure, a raising call or
\* a result without a length reached first ends the test with that
\* exception.  When every file loads and every function returns a list or
\* tuple, it passes if some function returns a non-empty result and fails
\* otherwise.
C14_PassesAtFirstNonEmpty ==
    Ran("test_produces_results") =>
        /\ Discovered = {} <=> report.outcome = "skipped"
        /\ report.outcome = "passed" =>
              \E x \in report.invoked :
                 /\ NonEmpty(x)
                 /\ x[1] = LastFile
                 /\ report.invoked = ReachedAt(x[1], x[2])
                 /\ \A y \in report.invoked \ {x} : EmptyResult(y)
        /\ report.outcome = "failed" <=>
              /\ Discovered # {} /\ AllLoad
              /\ \A x \in AllFunctions : EmptyResult(x)
        /\ report.outcome = "failed" =>
              /\ report.msg = [text |-> "No check function produced any results"]
              /\ report.invoked = AllFunctions
              /\ report.loaded = Discovered
        /\ report.outcome = "error" =>
              \/ LoadFails(LastFile)
              \/ \E x \in report.invoked :
                    /\ ~Sized(TheFunction(x[1], x[2]))
                    /\ report.msg.func = x[2]
                    /\ x[1] = LastFile
                    /\ \A y \in report.invoked \ {x} : EmptyResult(y)
        /\ (Discovered # {} /\ AllLoad /\ AllSized) =>
              (report.outcome = "passed" <=> \E x \in AllFunctions : NonEmpty(x))
        /\ report.checked = {}

\* The check passes at the first function and leaves a second one uncalled.
C14_Witness ==
    /\ Ran("test_produces_results")
    /\ report.outcome = "passed"
    /\ report.invoked = {<<CheckerA, check_a>>}
    /\ <<CheckerA, check_b>> \in AllFunctions
    /\ NonEmpty(<<CheckerA, check_a>>)

(***************************************************************************)
(* The model objects the functions receive.                                *)
(***************************************************************************)
\* Walls of a model as its fixture function builds it.
WallsBuilt(t) == IF t = "test_handles_empty_model" THEN 0 ELSE 3

\* Functions called before function n of file f in a sweep that change the
\* model.
MutatorsBefore(f, n) ==
    {y \in ReachedAt(f, n) \ {<<f, n>>} :
        TheFunction(y[1], y[2]).mutates /\ Binds(TheFunction(y[1], y[2]))}

\* C15 as claimed: no two calls of one sweep receive the same model object,
\* and no call sees a model another function has changed.
C15_FreshModelPerCall ==
    report.test \in FixtureTests =>
        /\ \A x, y \in report.received : x # y => x.id # y.id
        /\ \A x \in report.received : x.walls = WallsBuilt(report.test)

\* C15, amended: a model is constructed afresh for every test, not for every
\* call.  All calls of one test receive the same object, which no earlier
\* test has held, so a function sees the model as built plus what the
\* functions called before it in the same test have added: a mutation is
\* observable by the functions invoked later in the same sweep and by none
\* in a later test.
C15_FreshModelPerTest ==
    report.test \in FixtureTests =>
        /\ fixtures = pc - (Position("test_returns_list") - 1)
        /\ {<<x.file, x.func>> : x \in report.received} = report.invoked
        /\ \A x \in report.received :
              /\ x.id = fixtures
              /\ x.walls = WallsBuilt(report.test)
                              + Cardinality(MutatorsBefore(x.file, x.func))

\* A second function receives the model the first one has added a wall to.
C15_Witness ==
    /\ Ran("test_returns_list")
    /\ report.received =
          {[file |-> CheckerA, func |-> check_a, id |-> 1, walls |-> 3],
           [file |-> CheckerB, func |-> check_a, id |-> 1, walls |-> 4]}

(***************************************************************************)
(* The modules a sweep makes and where sys.modules holds them.             *)
(***************************************************************************)
\* The name of each discoverable file without its suffix.
StemOf ==
    CheckerA :> <<"c", "h", "e", "c", "k", "e", "r", "_", "a">>
    @@ CheckerB :> <<"c", "h", "e", "c", "k", "e", "r", "_", "b">>
    @@ CheckerBare :> <<"c", "h", "e", "c", "k", "e", "r", "_">>

UnitOf(f) == CHOOSE u \in report.units : u.file = f

\* C16: every load makes a module object of its own, no object of an earlier
\* test or of an earlier load in the same test, whose namespace holds what
\* the top-level code of its file defines, and sys.modules holds it under
\* the stem of its file.  A load leaves the modules of the other discovered
\* files as they are: each stays registered under its own stem with its own
\* namespace, so two files that define a function of the same name keep one
\* definition each.
C16_LoadsAreIsolated ==
    /\ \A s \in DOMAIN sysModules :
          /\ sysModules[s].file \in DOMAIN StemOf
          /\ StemOf[sysModules[s].file] = s
          /\ sysModules[s].namespace = plugins[sysModules[s].file].members
          /\ sysModules[s].id[1] <= pc
    /\ report.test \in SweepTests =>
          /\ {u.file : u \in report.units} = report.loaded
          /\ \A u, v \in report.units : u.id = v.id => u = v
          /\ \A u, v \in report.units : u.file = v.file => u = v
          /\ \A u \in report.units :
                /\ u.id[1] = pc
                /\ u.namespace = plugins[u.file].members
                /\ StemOf[u.file] \in DOMAIN sysModules
                /\ sysModules[StemOf[u.file]] = u
          /\ \A x \in report.invoked \union report.inspected :
                /\ x[1] \in report.loaded
                /\ \E m \in UnitOf(x[1]).namespace : m.name = x[2] /\ m.callable

\* Two files that define check_a differently were loaded in one test; both
\* modules are registered and each holds its own check_a.
C16_Witness ==
    /\ Ran("test_returns_list")
    /\ report.loaded = {CheckerA, CheckerB}
    /\ DOMAIN sysModules = {StemOf[CheckerA], StemOf[CheckerB]}
    /\ sysModules[StemOf[CheckerA]].id # sysModules[StemOf[CheckerB]].id
    /\ sysModules[StemOf[CheckerA]].namespace # sysModules[StemOf[CheckerB]].namespace
    /\ \E m \in sysModules[StemOf[CheckerA]].namespace : m.name = check_a
    /\ \E m \in sysModules[StemOf[CheckerB]].namespace : m.name = check_a
    /\ report.invoked = {<<CheckerA, check_a>>, <<CheckerB, check_a>>}

====
